---- MODULE Spec2Model ----
(***************************************************************************)
(* The C++ side of the macroquest-rs boundary: the nine path accessors,    *)
(* the two write_chat_color implementations (macroquest-sys and            *)
(* macroquest/ffi) and the three name projections, together with the host  *)
(* memory they read.  Text is a sequence of bytes (0..255); a C string is  *)
(* a byte buffer read up to its first NUL; a rust::Str is a pointer and a  *)
(* length into host memory, built by strlen plus a UTF-8 check.            *)
(*                                                                         *)
(* The paths, the chat output and the records share no state and no entry  *)
(* point reads or writes more than one of them, so a behaviour exercises   *)
(* one of the three (scenario) while the other two stay as constructed.    *)
(* A call that throws or faults ends the process: nothing follows it.      *)
(***************************************************************************)
EXTENDS Integers, Sequences, FiniteSets, TLC

VARIABLES scenario,     \* which component the run exercises
          alive,        \* the process has not been terminated
          initialized,  \* host state machine: Uninitialized -> Initialized
          gPath,        \* the nine ::mq::gPath* globals (NUL-terminated bytes)
          rec,          \* host records: PlayerClient, EQGroundItem, MQPlugin
          ref,          \* the reference the caller holds to each record
          chat,         \* host chat output: sequence of [text, color]
          lastCall,     \* the last boundary call and what it returned
          dirty         \* host state changed since the last boundary call

vars == <<scenario, alive, initialized, gPath, rec, ref, chat, lastCall, dirty>>

hostState == <<initialized, gPath, rec, chat>>

(* ------------------------------ bounds -------------------------------- *)
MaxPayloadLen == 2      \* longest chat payload, in bytes
MaxChat == 2            \* most lines the chat output holds
NameCap == 3            \* size of a record's Name buffer, in bytes

(* ------------------------------ universe ------------------------------ *)
PathNames == {"MQRoot", "Config", "MQini", "Macros", "Logs",
              "CrashDumps", "Plugins", "Resources", "EverQuest"}

RecTypes == {"PlayerClient", "EQGroundItem", "MQPlugin"}

Scenarios == {"paths", "chat", "records"}

Colors == {0, 13}

\* bytes a payload is built from: NUL, '%', 's'
PayloadBytes == {0, 37, 115}

RECURSIVE SeqsUpTo(_, _)
SeqsUpTo(S, n) ==
    IF n = 0 THEN {<<>>}
    ELSE LET T == SeqsUpTo(S, n - 1)
         IN  T \cup {Append(t, b) : t \in {u \in T : Len(u) = n - 1}, b \in S}

\* names the host gives a record: "A", "AB", and 0xE9 (e-acute in CP-1252)
Names == {<<65>>, <<65, 66>>, <<233>>}

\* bytes a freed record's memory may hold after the allocator reused it: "??"
GarbageName == <<63, 63>>

\* values the host may resolve one path to: "", "/", 0xE9, and UTF-8 e-acute
PathStrs == {<<>>, <<47>>, <<233>>, <<195, 169>>}

PathIdx(p) ==
    CASE p = "MQRoot" -> 1 [] p = "Config" -> 2 [] p = "MQini" -> 3
      [] p = "Macros" -> 4 [] p = "Logs" -> 5 [] p = "CrashDumps" -> 6
      [] p = "Plugins" -> 7 [] p = "Resources" -> 8 [] p = "EverQuest" -> 9

\* the value the host resolves path p to by default: "/a" .. "/i"
DefaultPath(p) == <<47, 96 + PathIdx(p)>>

(* ----------------------------- C strings ------------------------------ *)
\* strlen: bytes before the first NUL of a buffer
RECURSIVE strlen(_)
strlen(m) == IF m = <<>> \/ Head(m) = 0 THEN 0 ELSE 1 + strlen(Tail(m))

\* the text a reader of a const char* sees
CStr(m) == SubSeq(m, 1, strlen(m))

\* std::string::c_str(): the string's bytes followed by a NUL
c_str(s) == s \o <<0>>

\* strcpy of name n into buffer buf (Len(n) < Len(buf)); the tail is kept
strcpy(buf, n) == n \o <<0>> \o SubSeq(buf, Len(n) + 2, Len(buf))

ZeroBuf == [i \in 1..NameCap |-> 0]

(* ------------------------------ rust::Str ----------------------------- *)
\* UTF-8 well-formedness by lead byte and continuation count (the overlong
\* and surrogate exclusions of the three- and four-byte forms are left out)
IsCont(b) == b >= 128 /\ b <= 191

RECURSIVE IsUtf8(_)
IsUtf8(s) ==
    IF s = <<>> THEN TRUE
    ELSE LET b == Head(s)
             n == Len(s)
         IN  IF b < 128 THEN IsUtf8(Tail(s))
             ELSE IF b >= 194 /\ b <= 223
                  THEN n >= 2 /\ IsCont(s[2]) /\ IsUtf8(SubSeq(s, 3, n))
             ELSE IF b >= 224 /\ b <= 239
                  THEN n >= 3 /\ IsCont(s[2]) /\ IsCont(s[3])
                       /\ IsUtf8(SubSeq(s, 4, n))
             ELSE IF b >= 240 /\ b <= 244
                  THEN n >= 4 /\ IsCont(s[2]) /\ IsCont(s[3]) /\ IsCont(s[4])
                       /\ IsUtf8(SubSeq(s, 5, n))
             ELSE FALSE

NoRes == [kind |-> "None", ptr |-> "-", len |-> 0]
Void  == [kind |-> "Void", ptr |-> "-", len |-> 0]
\* std::invalid_argument leaving a function whose return type is rust::Str
Throw == [kind |-> "Throw", ptr |-> "-", len |-> 0]
\* access violation
Fault == [kind |-> "Fault", ptr |-> "-", len |-> 0]

\* rust::Str(const char*): strlen, then the UTF-8 check; a borrow, not a copy
MakeStr(ptr, m) ==
    IF IsUtf8(CStr(m))
    THEN [kind |-> "Str", ptr |-> ptr, len |-> strlen(m)]
    ELSE Throw

\* host memory at the address a rust::Str points to
Mem(ptr) == IF ptr \in PathNames THEN gPath[ptr] ELSE rec[ptr].Name

\* what the holder of a rust::Str reads through it now
View(r) ==
    IF r.kind = "Str" /\ r.len <= Len(Mem(r.ptr))
    THEN SubSeq(Mem(r.ptr), 1, r.len)
    ELSE <<>>

Payloads == {s \in SeqsUpTo(PayloadBytes, MaxPayloadLen) : IsUtf8(s)}

(* -------------------------------- state ------------------------------- *)
NoArg == [target |-> "-", ref |-> "-", line |-> <<>>, color |-> 0]

SameInput(a, b) ==
    /\ a.target = b.target
    /\ (a.ref = "null") = (b.ref = "null")
    /\ a.line = b.line
    /\ a.color = b.color

Init ==
    /\ scenario \in Scenarios
    /\ alive = TRUE
    /\ initialized = FALSE
    /\ gPath = [p \in PathNames |-> <<0>>]
    /\ rec = [t \in RecTypes |-> [st |-> "unmapped", Name |-> ZeroBuf]]
    /\ ref = [t \in RecTypes |-> "null"]
    /\ chat = <<>>
    /\ lastCall = [tick |-> 0, op |-> "none", arg |-> NoArg, res |-> NoRes,
                   seen |-> <<>>, inited |-> FALSE, rep |-> FALSE]
    /\ dirty = FALSE

\* the record of a boundary call
Called(op, arg, res, seen) ==
    [tick |-> 1 - lastCall.tick, op |-> op, arg |-> arg, res |-> res,
     seen |-> seen, inited |-> initialized,
     rep |-> (lastCall.op = op /\ SameInput(lastCall.arg, arg) /\ ~dirty)]

Survives(res) == res.kind \notin {"Throw", "Fault"}

(* ------------------------- host entry points -------------------------- *)
\* ::mq::WriteChatColor(const char* Line, int Color): one line is appended
WriteChatColor(out, Line, Color) ==
    Append(out, [text |-> CStr(Line), color |-> Color])

\* what a missing or mistyped variadic argument formats as: "?"
VarArgGarbage == <<63>>

\* printf-style formatting of template f (text) with C-string arguments args
RECURSIVE Format(_, _)
Format(f, args) ==
    IF f = <<>> THEN <<>>
    ELSE IF Head(f) # 37 THEN <<Head(f)>> \o Format(Tail(f), args)
    ELSE IF Len(f) = 1 THEN <<>>
    ELSE LET d == f[2]
             rest == SubSeq(f, 3, Len(f))
         IN  IF d = 37 THEN <<37>> \o Format(rest, args)
             ELSE IF d = 115
                  THEN (IF args = <<>> THEN VarArgGarbage ELSE CStr(Head(args)))
                       \o Format(rest, IF args = <<>> THEN args ELSE Tail(args))
             ELSE Format(rest, args)

\* ::mq::WriteChatColorf(const char* szFormat, int color, ...): formats, then
\* writes the formatted text as one line
WriteChatColorf(out, szFormat, color, args) ==
    WriteChatColor(out, c_str(Format(CStr(szFormat), args)), color)

(* --------------------------- write_chat_color ------------------------- *)
\* the formatting entry point called with the payload as its template
sys_write_chat_color_Formatted(out, line, color) ==
    WriteChatColorf(out, c_str(line), color, <<>>)

\* macroquest-sys: ::mq::WriteChatColor(static_cast<std::string>(line).c_str(), color)
sys_write_chat_color(out, line, color) ==
    WriteChatColor(out, c_str(line), color)

\* the payload passed as the template
ffi_write_chat_color_AsTemplate(out, line, color) ==
    WriteChatColorf(out, c_str(line), color, <<>>)

\* macroquest/ffi: ::mq::WriteChatColorf("%s", color, static_cast<std::string>(line).c_str())
ffi_write_chat_color(out, line, color) ==
    WriteChatColorf(out, c_str(<<37, 115>>), color, <<c_str(line)>>)

write_chat_color_sys(line, color) ==
    /\ alive /\ scenario = "chat" /\ Len(chat) < MaxChat
    /\ chat' = sys_write_chat_color(chat, line, color)
    /\ lastCall' = Called("write_chat_color_sys",
                          [NoArg EXCEPT !.line = line, !.color = color],
                          Void, <<>>)
    /\ dirty' = TRUE
    /\ UNCHANGED <<scenario, alive, initialized, gPath, rec, ref>>

write_chat_color_ffi(line, color) ==
    /\ alive /\ scenario = "chat" /\ Len(chat) < MaxChat
    /\ chat' = ffi_write_chat_color(chat, line, color)
    /\ lastCall' = Called("write_chat_color_ffi",
                          [NoArg EXCEPT !.line = line, !.color = color],
                          Void, <<>>)
    /\ dirty' = TRUE
    /\ UNCHANGED <<scenario, alive, initialized, gPath, rec, ref>>

(* ---------------------------- path accessors -------------------------- *)
\* the accessor moves the text out of the global it returns
PathAccessor_Consume(X, G) ==
    /\ alive /\ scenario = "paths"
    /\ LET r == MakeStr(G, gPath[G])
       IN  /\ lastCall' = Called("get_path", [NoArg EXCEPT !.target = X],
                                 r, CStr(gPath[G]))
           /\ alive' = Survives(r)
    /\ gPath' = [gPath EXCEPT ![G] = <<0>>]
    /\ dirty' = FALSE
    /\ UNCHANGED <<scenario, initialized, rec, ref, chat>>

\* rust::Str get_path_X() { return ::mq::gPathG; }
PathAccessor(X, G) ==
    /\ alive /\ scenario = "paths"
    /\ LET r == MakeStr(G, gPath[G])
       IN  /\ lastCall' = Called("get_path", [NoArg EXCEPT !.target = X],
                                 r, CStr(gPath[G]))
           /\ alive' = Survives(r)
    /\ dirty' = FALSE
    /\ UNCHANGED <<scenario, initialized, gPath, rec, ref, chat>>

get_path_MQRoot     == PathAccessor("MQRoot", "MQRoot")
get_path_Config     == PathAccessor("Config", "Config")
get_path_MQini      == PathAccessor("MQini", "MQini")
get_path_Macros     == PathAccessor("Macros", "Macros")
get_path_Logs       == PathAccessor("Logs", "Logs")
get_path_CrashDumps == PathAccessor("CrashDumps", "CrashDumps")
get_path_Plugins    == PathAccessor("Plugins", "Plugins")
get_path_Resources  == PathAccessor("Resources", "Resources")
get_path_EverQuest  == PathAccessor("EverQuest", "EverQuest")

(* --------------------------- name projections ------------------------- *)
\* the read `this->Name`: a null `this` or unmapped memory faults; anything
\* else, live or not, is read as it stands
ReadName(t) ==
    IF ref[t] = "null" \/ rec[t].st = "unmapped"
    THEN Fault
    ELSE MakeStr(t, rec[t].Name)

\* the projection writes the terminator it found back into the record
NameProjection_Clobber(op, t) ==
    /\ alive /\ scenario = "records"
    /\ LET r == ReadName(t)
       IN  /\ lastCall' = Called(op, [NoArg EXCEPT !.target = t, !.ref = ref[t]],
                                 r, IF r.kind = "Fault" THEN <<>>
                                    ELSE CStr(rec[t].Name))
           /\ alive' = Survives(r)
           /\ rec' = IF r.kind = "Str"
                     THEN [rec EXCEPT ![t].Name = ZeroBuf]
                     ELSE rec
    /\ dirty' = FALSE
    /\ UNCHANGED <<scenario, initialized, gPath, ref, chat>>

\* rust::Str T::name() const { return this->Name; }
NameProjection(op, t) ==
    /\ alive /\ scenario = "records"
    /\ LET r == ReadName(t)
       IN  /\ lastCall' = Called(op, [NoArg EXCEPT !.target = t, !.ref = ref[t]],
                                 r, IF r.kind = "Fault" THEN <<>>
                                    ELSE CStr(rec[t].Name))
           /\ alive' = Survives(r)
    /\ dirty' = FALSE
    /\ UNCHANGED <<scenario, initialized, gPath, rec, ref, chat>>

PlayerClient_name    == NameProjection("PlayerClient_name", "PlayerClient")
EQGroundItem_name    == NameProjection("EQGroundItem_name", "EQGroundItem")
MQPlugin_plugin_name == NameProjection("MQPlugin_plugin_name", "MQPlugin")

(* ------------------------------ the host ------------------------------ *)
\* host start-up resolves the nine paths, once; path k resolves to s
HostInit(k, s) ==
    /\ alive /\ scenario = "paths" /\ ~initialized
    /\ initialized' = TRUE
    /\ gPath' = [p \in PathNames |-> c_str(IF p = k THEN s ELSE DefaultPath(p))]
    /\ dirty' = TRUE
    /\ UNCHANGED <<scenario, alive, rec, ref, chat, lastCall>>

\* the host creates a record of type t, named n, in free or fresh memory
HostSpawn(t, n) ==
    /\ alive /\ scenario = "records" /\ rec[t].st # "live"
    /\ rec' = [rec EXCEPT ![t] = [st |-> "live", Name |-> strcpy(@.Name, n)]]
    /\ dirty' = TRUE
    /\ UNCHANGED <<scenario, alive, initialized, gPath, ref, chat, lastCall>>

\* the host renames a live entity record in place
HostRename(t, n) ==
    /\ alive /\ scenario = "records" /\ rec[t].st = "live"
    /\ t # "MQPlugin" /\ CStr(rec[t].Name) # n
    /\ rec' = [rec EXCEPT ![t].Name = strcpy(@, n)]
    /\ dirty' = TRUE
    /\ UNCHANGED <<scenario, alive, initialized, gPath, ref, chat, lastCall>>

\* the host destroys a record: its memory is released to the system ("unmap"),
\* left as it is ("keep") or reused for other data ("scribble")
HostFree(t, how) ==
    /\ alive /\ scenario = "records" /\ rec[t].st = "live"
    /\ rec' = [rec EXCEPT ![t] =
                 CASE how = "unmap"    -> [st |-> "unmapped", Name |-> ZeroBuf]
                   [] how = "keep"     -> [st |-> "freed", Name |-> @.Name]
                   [] how = "scribble" -> [st |-> "freed",
                                           Name |-> strcpy(@.Name, GarbageName)]]
    /\ ref' = [ref EXCEPT ![t] = IF @ = "valid" THEN "stale" ELSE @]
    /\ dirty' = TRUE
    /\ UNCHANGED <<scenario, alive, initialized, gPath, chat, lastCall>>

\* the caller asks the lookup facade for the record of type t
Lookup(t) ==
    /\ alive /\ scenario = "records"
    /\ ref' = [ref EXCEPT ![t] = IF rec[t].st = "live" THEN "valid" ELSE "null"]
    /\ ref' # ref
    /\ UNCHANGED <<scenario, alive, initialized, gPath, rec, chat, lastCall, dirty>>

Next ==
    \/ get_path_MQRoot \/ get_path_Config \/ get_path_MQini
    \/ get_path_Macros \/ get_path_Logs \/ get_path_CrashDumps
    \/ get_path_Plugins \/ get_path_Resources \/ get_path_EverQuest
    \/ \E line \in Payloads, color \in Colors : write_chat_color_sys(line, color)
    \/ \E line \in Payloads, color \in Colors : write_chat_color_ffi(line, color)
    \/ PlayerClient_name \/ EQGroundItem_name \/ MQPlugin_plugin_name
    \/ \E k \in PathNames, s \in PathStrs : HostInit(k, s)
    \/ \E t \in RecTypes, n \in Names : HostSpawn(t, n)
    \/ \E t \in RecTypes, n \in Names : HostRename(t, n)
    \/ \E t \in RecTypes, how \in {"unmap", "keep", "scribble"} : HostFree(t, how)
    \/ \E t \in RecTypes : Lookup(t)

Spec == Init /\ [][Next]_vars

TypeOK ==
    /\ scenario \in Scenarios
    /\ alive \in BOOLEAN /\ initialized \in BOOLEAN /\ dirty \in BOOLEAN
    /\ \A t \in RecTypes : /\ rec[t].st \in {"live", "freed", "unmapped"}
                           /\ Len(rec[t].Name) = NameCap
                           /\ rec[t].Name[NameCap] = 0
                           /\ ref[t] \in {"null", "valid", "stale"}
                           /\ (ref[t] = "valid" => rec[t].st = "live")
    /\ Len(chat) <= MaxChat

(* ------------------------------- claims ------------------------------- *)
ChatOps == {"write_chat_color_sys", "write_chat_color_ffi"}
NameOps == {"PlayerClient_name", "EQGroundItem_name", "MQPlugin_plugin_name"}
ReadOps == NameOps \cup {"get_path"}

\* a boundary call happens in this step
CallStep == lastCall'.tick # lastCall.tick

NulFree(s) == \A i \in 1..Len(s) : s[i] # 0

\* C1 (as stated): every write_chat_color(p, c), with either implementation,
\* appends exactly one line whose text is p, byte for byte, and whose colour
\* is c.
C1_VerbatimAnyPayload ==
    [][(CallStep /\ lastCall'.op \in ChatOps)
         => chat' = Append(chat, [text  |-> lastCall'.arg.line,
                                  color |-> lastCall'.arg.color])]_vars

\* C1 (amended): every write_chat_color(p, c) whose payload p holds no NUL
\* byte appends exactly one line whose text is p, byte for byte ('%'
\* sequences included), and whose colour is c.
C1_VerbatimNulFree ==
    [][(CallStep /\ lastCall'.op \in ChatOps /\ NulFree(lastCall'.arg.line))
         => chat' = Append(chat, [text  |-> lastCall'.arg.line,
                                  color |-> lastCall'.arg.color])]_vars

\* the payload "%s" was written through the ffi implementation and stands in
\* the chat output as the two bytes '%', 's'
C1_Witness ==
    /\ lastCall.op = "write_chat_color_ffi"
    /\ lastCall.arg.line = <<37, 115>>
    /\ Len(chat) >= 1
    /\ chat[Len(chat)] = [text |-> <<37, 115>>, color |-> lastCall.arg.color]

\* C2: a path accessor called while the host is Uninitialized yields the
\* Uninitialized-state error.
C2_UninitializedError ==
    (lastCall.op = "get_path" /\ ~lastCall.inited)
        => lastCall.res.kind = "Uninitialized"

\* C3: a name projection given a null or stale reference returns the
\* Invalid-reference error.
C3_InvalidReferenceError ==
    (lastCall.op \in NameOps /\ lastCall.arg.ref \in {"null", "stale"})
        => lastCall.res.kind = "InvalidReference"

\* C4: an accessor that reads host text which is not representable in the
\* boundary's string type returns the Encoding-error result.
C4_EncodingErrorResult ==
    (lastCall.op \in ReadOps /\ ~IsUtf8(lastCall.seen))
        => lastCall.res.kind = "EncodingError"

\* C5: the string the caller holds from an entity or ground-item name
\* projection always equals the name the record had at call time, whatever
\* the host has done to the record since.
C5_ValueOutlivesRecord ==
    (lastCall.op \in {"PlayerClient_name", "EQGroundItem_name"}
       /\ lastCall.res.kind = "Str")
        => View(lastCall.res) = lastCall.seen

\* C6: after host initialization a path accessor returns a string equal to
\* the value of its own path global, empty only if that value is empty.
C6_ExactPath ==
    (lastCall.op = "get_path" /\ lastCall.inited)
        => /\ lastCall.res.kind = "Str"
           /\ View(lastCall.res) = CStr(gPath[lastCall.arg.target])

\* C7: given a valid, non-stale reference to a record whose name field holds
\* n, the name projection returns exactly n.
C7_ExactName ==
    (lastCall.op \in NameOps /\ lastCall.arg.ref = "valid" /\ ~dirty)
        => /\ lastCall.res.kind = "Str"
           /\ View(lastCall.res) = CStr(rec[lastCall.arg.target].Name)

\* C8: a path accessor or name projection changes no host state (paths,
\* records, chat output, initialization); write_chat_color changes only the
\* chat output, and only by appending one line.
C8_Frame ==
    [][CallStep =>
         IF lastCall'.op \in ChatOps
         THEN /\ UNCHANGED <<initialized, gPath, rec>>
              /\ Len(chat') = Len(chat) + 1
              /\ SubSeq(chat', 1, Len(chat)) = chat
         ELSE UNCHANGED hostState]_vars

\* a ground item named "AB" has just been read through its projection
C8_Witness ==
    /\ lastCall.op = "EQGroundItem_name"
    /\ lastCall.res.kind = "Str"
    /\ lastCall.res.len = 2
    /\ rec["EQGroundItem"].st = "live"

\* C9: a read-only accessor called again with the same input, with no host
\* state change since the previous call, returns what the previous call
\* returned.
C9_Idempotent ==
    [][(CallStep /\ lastCall'.op \in ReadOps /\ lastCall'.rep)
         => /\ lastCall'.res = lastCall.res
            /\ lastCall'.seen = lastCall.seen]_vars

\* a path accessor was called twice in a row on an initialized host and
\* returned a two-byte path
C9_Witness ==
    /\ lastCall.op = "get_path"
    /\ lastCall.rep
    /\ lastCall.inited
    /\ lastCall.res.kind = "Str"
    /\ lastCall.res.len = 2

\* C10: from the same chat output, the macroquest-sys and the macroquest/ffi
\* write_chat_color produce the same chat output for every payload and colour.
C10_Equivalent ==
    \A line \in Payloads, color \in Colors :
        sys_write_chat_color(chat, line, color)
            = ffi_write_chat_color(chat, line, color)

\* the payload "%" NUL was written through the ffi implementation after
\* another line, and reads "%" in the chat output
C10_Witness ==
    /\ lastCall.op = "write_chat_color_ffi"
    /\ lastCall.arg.line = <<37, 0>>
    /\ Len(chat) = 2
    /\ chat[2].text = <<37>>

====
